---- MODULE Spec2Model ----
(***************************************************************************)
(* Model of scripts/generate-icons.py: create_icon(size) as a sequence of  *)
(* drawing steps on a canvas, and the module-level loop that renders,      *)
(* saves and reports one icon per entry of sizes.                          *)
(*                                                                         *)
(* The canvas is a width, a height and the colour of a few sampled pixels  *)
(* (px); every drawing step repaints exactly the sampled pixels that its   *)
(* primitive covers.  Each frame also keeps the list of draw calls made    *)
(* with their arguments (ops).                                             *)
(***************************************************************************)
EXTENDS Integers, Sequences, FiniteSets, TLC

VARIABLES
    call,     \* call[k]: activation record of the k-th create_icon call
    dpc,      \* dpc[k]: position of loop iteration k (lines 67-71)
    icon,     \* icon[k]: the image bound to `icon` in iteration k
    files,    \* the output directory: path -> content
    written,  \* history: paths whose save() returned, in order
    stdout,   \* lines printed so far
    status    \* "running", "done" (fell off the end), "failed" (uncaught exception)

vars == <<call, dpc, icon, files, written, stdout, status>>

----------------------------------------------------------------------------
(* Bounds *)

\* create_icon is exercised on 1..MaxSize in addition to the sizes of the script
MaxSize == 120

----------------------------------------------------------------------------
(* Program constants *)

\* line 64
sizes == <<192, 512>>

\* line 51
text == "MX"

\* line 47
PreferredFont == "/System/Library/Fonts/Helvetica.ttc"

\* ImageColor.getrgb on the colour arguments the script passes
GetRGB(c) ==
    CASE c = "#22c55e" -> <<34, 197, 94>>
      [] c = "white"   -> <<255, 255, 255>>
      [] c = "#ffffff" -> <<255, 255, 255>>

Max(a, b) == IF a >= b THEN a ELSE b

----------------------------------------------------------------------------
(* Geometry locals of create_icon, each a function of size *)

\* mutant: the badge inset taken as half the canvas
MarginHalf(size) == size \div 2

Margin(size) == size \div 8
CenterX(size) == size \div 2
CenterY(size) == size \div 2
\* mutant: the lower limit of 2 on the stroke width dropped
LineWidthNoFloor(size) == size \div 50

LineWidth(size) == Max(2, size \div 50)

BeamWidth(size) == size \div 3
\* mutant: the pan extent taken as a sixth of the canvas
PanSizeSixth(size) == size \div 6

PanSize(size) == size \div 8

\* mutant: the label font size fixed at the value for the small icon
FontSizeFixed(size) == 192 \div 6

FontSize(size) == size \div 6
TextWidth(bbox) == bbox[3] - bbox[1]
TextHeight(bbox) == bbox[4] - bbox[2]
TextX(size, bbox) == CenterX(size) - TextWidth(bbox) \div 2
TextY(size) == CenterY(size) + size \div 6

----------------------------------------------------------------------------
(* The canvas: sampled pixels *)

ProbeNames == {"corner", "center", "badge"}

\* coordinates of the sampled pixels of a size x size canvas
ProbeXY(p, size) ==
    CASE p = "corner" -> <<0, 0>>
      [] p = "center" -> <<size \div 2, size \div 2>>
      [] p = "badge"  -> <<size \div 2 + size \div 8, size \div 2>>

NoImage == [mode |-> "none", width |-> 0, height |-> 0,
            px |-> [p \in ProbeNames |-> <<0, 0, 0>>]]

\* mutant: the canvas made one pixel too high
NewImageTall(size, color) ==
    [mode |-> "RGB", width |-> size, height |-> size + 1,
     px |-> [p \in ProbeNames |-> GetRGB(color)]]

\* mutant: the colour argument left out, so the canvas starts black
NewImageBlack(size, color) ==
    [mode |-> "RGB", width |-> size, height |-> size,
     px |-> [p \in ProbeNames |-> <<0, 0, 0>>]]

\* Image.new('RGB', (size, size), color=...)
NewImage(size, color) ==
    [mode |-> "RGB", width |-> size, height |-> size,
     px |-> [p \in ProbeNames |-> GetRGB(color)]]

\* pixel (x, y) lies in the ellipse inscribed in the box xy = <<x0, y0, x1, y1>>
\* (the boxes the script passes are squares, so the ellipse is a circle)
InEllipse(x, y, xy) ==
    LET w == xy[3] - xy[1]
        h == xy[4] - xy[2]
        dx == 2 * x - xy[1] - xy[3]
        dy == 2 * y - xy[2] - xy[4]
    IN  /\ xy[1] <= x /\ x <= xy[3]
        /\ xy[2] <= y /\ y <= xy[4]
        /\ IF w = h THEN dx * dx + dy * dy <= w * w
           ELSE dx * dx * (h * h) + dy * dy * (w * w) <= (w * w) * (h * h)

\* pixel (x, y) lies on the outline of thickness width of that ellipse
OnOutline(x, y, xy, width) ==
    LET inner == <<xy[1] + width, xy[2] + width, xy[3] - width, xy[4] - width>>
    IN  /\ InEllipse(x, y, xy)
        /\ \/ inner[1] >= inner[3]
           \/ inner[2] >= inner[4]
           \/ ~InEllipse(x, y, inner)

\* pixel (x, y) lies on the axis-parallel stroke xy = <<x0, y0, x1, y1>> of thickness width
OnLine(x, y, xy, width) ==
    IF xy[1] = xy[3]
    THEN /\ 2 * x >= 2 * xy[1] - width /\ 2 * x <= 2 * xy[1] + width
         /\ xy[2] <= y /\ y <= xy[4]
    ELSE /\ 2 * y >= 2 * xy[2] - width /\ 2 * y <= 2 * xy[2] + width
         /\ xy[1] <= x /\ x <= xy[3]

\* pixel (x, y) lies in the box the label's glyphs are drawn in
InTextBox(x, y, at, bbox) ==
    /\ at[1] + bbox[1] <= x /\ x <= at[1] + bbox[3]
    /\ at[2] + bbox[2] <= y /\ y <= at[2] + bbox[4]

\* the record of one draw call
DrawOp(op, xy, fill, outline, width) ==
    [op |-> op, xy |-> xy, fill |-> fill, outline |-> outline, width |-> width]

\* draw.ellipse(xy, fill=..., outline=..., width=...)
DrawEllipse(img, xy, fill, outline, width) ==
    [img EXCEPT !.px = [p \in ProbeNames |->
        LET q == ProbeXY(p, img.width)
        IN  IF outline # "none" /\ OnOutline(q[1], q[2], xy, width) THEN GetRGB(outline)
            ELSE IF fill # "none" /\ InEllipse(q[1], q[2], xy) THEN GetRGB(fill)
            ELSE img.px[p]]]

\* draw.line(xy, fill=..., width=...)
DrawLine(img, xy, fill, width) ==
    [img EXCEPT !.px = [p \in ProbeNames |->
        LET q == ProbeXY(p, img.width)
        IN  IF OnLine(q[1], q[2], xy, width) THEN GetRGB(fill) ELSE img.px[p]]]

\* the sampled pixels the label may paint: those inside its box
TextReach(img, at, bbox) ==
    {p \in ProbeNames :
        LET q == ProbeXY(p, img.width) IN InTextBox(q[1], q[2], at, bbox)}

\* draw.text(at, text, font=..., fill=...): paints the pixels of the glyphs
DrawText(img, painted, fill) ==
    [img EXCEPT !.px = [p \in ProbeNames |->
        IF p \in painted THEN GetRGB(fill) ELSE img.px[p]]]

----------------------------------------------------------------------------
(* Fonts *)

NoFont == [kind |-> "none", path |-> "", size |-> 0]
NoBBox == <<0, 0, 0, 0>>

\* ImageFont.truetype(path, font_size)
TrueTypeFont(path, font_size) == [kind |-> "truetype", path |-> path, size |-> font_size]

\* pixel sizes ImageFont.load_default() comes in (it takes no size from the caller)
DefaultFontSizes == {10, 11}

\* ImageFont.load_default()
DefaultFont(d) == [kind |-> "default", path |-> "", size |-> d]

\* draw.textbbox((0, 0), "MX", font=font): the boxes a font of that pixel size may report
TextBBoxes(font) ==
    {<<l, t, l + w, t + font.size>> :
        l \in {0, 1}, t \in {0, font.size \div 4}, w \in {font.size, 2 * font.size - 1}}

----------------------------------------------------------------------------
(* create_icon(size), one action per statement group *)

\* the frame on entry to create_icon(size)
NewFrame(size) ==
    [pc |-> "new", size |-> size, img |-> NoImage, ops |-> <<>>,
     font |-> NoFont, bbox |-> NoBBox]

At(k, pc) == /\ status = "running"
             /\ k \in DOMAIN call
             /\ dpc[k] = "create"
             /\ call[k].pc = pc

\* lines 10-11
ImageNew(k) ==
    /\ At(k, "new")
    /\ call' = [call EXCEPT ![k].img = NewImage(call[k].size, "#22c55e"),
                            ![k].pc = "badge"]
    /\ UNCHANGED <<dpc, icon, files, written, stdout, status>>

\* one draw call on frame f, then on to pc
Ellipse(f, xy, fill, outline, width, pc) ==
    [f EXCEPT !.img = DrawEllipse(f.img, xy, fill, outline, width),
              !.ops = Append(f.ops, DrawOp("ellipse", xy, fill, outline, width)),
              !.pc = pc]

Line(f, xy, fill, width, pc) ==
    [f EXCEPT !.img = DrawLine(f.img, xy, fill, width),
              !.ops = Append(f.ops, DrawOp("line", xy, fill, "none", width)),
              !.pc = pc]

\* lines 14-15
DrawBadge(k) ==
    /\ At(k, "badge")
    /\ LET size == call[k].size
           margin == Margin(size)
       IN  call' = [call EXCEPT ![k] =
               Ellipse(call[k], <<margin, margin, size - margin, size - margin>>,
                       "white", "none", 1, "vline")]
    /\ UNCHANGED <<dpc, icon, files, written, stdout, status>>

\* lines 18-24
DrawVertical(k) ==
    /\ At(k, "vline")
    /\ LET size == call[k].size
           center_x == CenterX(size)
           center_y == CenterY(size)
       IN  call' = [call EXCEPT ![k] =
               Line(call[k],
                    <<center_x, center_y - size \div 4, center_x, center_y + size \div 4>>,
                    "#22c55e", LineWidth(size), "beam")]
    /\ UNCHANGED <<dpc, icon, files, written, stdout, status>>

\* lines 27-30
DrawBeam(k) ==
    /\ At(k, "beam")
    /\ LET size == call[k].size
           center_x == CenterX(size)
           center_y == CenterY(size)
           beam_width == BeamWidth(size)
       IN  call' = [call EXCEPT ![k] =
               Line(call[k],
                    <<center_x - beam_width, center_y - size \div 4,
                      center_x + beam_width, center_y - size \div 4>>,
                    "#22c55e", LineWidth(size), "lpan")]
    /\ UNCHANGED <<dpc, icon, files, written, stdout, status>>

\* lines 33-37
DrawLeftPan(k) ==
    /\ At(k, "lpan")
    /\ LET size == call[k].size
           center_x == CenterX(size)
           center_y == CenterY(size)
           beam_width == BeamWidth(size)
           pan_size == PanSize(size)
       IN  call' = [call EXCEPT ![k] =
               Ellipse(call[k],
                       <<center_x - beam_width - pan_size \div 2,
                         center_y - size \div 4 - pan_size \div 2,
                         center_x - beam_width + pan_size \div 2,
                         center_y - size \div 4 + pan_size \div 2>>,
                       "none", "#22c55e", LineWidth(size), "rpan")]
    /\ UNCHANGED <<dpc, icon, files, written, stdout, status>>

\* lines 38-41
DrawRightPan(k) ==
    /\ At(k, "rpan")
    /\ LET size == call[k].size
           center_x == CenterX(size)
           center_y == CenterY(size)
           beam_width == BeamWidth(size)
           pan_size == PanSize(size)
       IN  call' = [call EXCEPT ![k] =
               Ellipse(call[k],
                       <<center_x + beam_width - pan_size \div 2,
                         center_y - size \div 4 - pan_size \div 2,
                         center_x + beam_width + pan_size \div 2,
                         center_y - size \div 4 + pan_size \div 2>>,
                       "none", "#22c55e", LineWidth(size), "font")]
    /\ UNCHANGED <<dpc, icon, files, written, stdout, status>>

\* lines 44-47, the try block completing
LoadTrueType(k) ==
    /\ At(k, "font")
    /\ call' = [call EXCEPT ![k].font = TrueTypeFont(PreferredFont, FontSize(call[k].size)),
                            ![k].pc = "bbox"]
    /\ UNCHANGED <<dpc, icon, files, written, stdout, status>>

\* mutant: no except clause, so truetype() raising leaves create_icon
LoadDefaultRaise(k) ==
    /\ At(k, "font")
    /\ call' = [call EXCEPT ![k].pc = "raised"]
    /\ status' = "failed"
    /\ UNCHANGED <<dpc, icon, files, written, stdout>>

\* lines 44-49, truetype() raising and the bare except taking over
LoadDefault(k) ==
    /\ At(k, "font")
    /\ \E d \in DefaultFontSizes :
          call' = [call EXCEPT ![k].font = DefaultFont(d), ![k].pc = "bbox"]
    /\ UNCHANGED <<dpc, icon, files, written, stdout, status>>

\* lines 51-55
TextBBox(k) ==
    /\ At(k, "bbox")
    /\ \E b \in TextBBoxes(call[k].font) :
          call' = [call EXCEPT ![k].bbox = b, ![k].pc = "text"]
    /\ UNCHANGED <<dpc, icon, files, written, stdout, status>>

\* lines 57-59
DrawLabel(k) ==
    /\ At(k, "text")
    /\ LET f == call[k]
           at == <<TextX(f.size, f.bbox), TextY(f.size)>>
       IN  \E painted \in SUBSET TextReach(f.img, at, f.bbox) :
              call' = [call EXCEPT
                  ![k].img = DrawText(f.img, painted, "#22c55e"),
                  ![k].ops = Append(f.ops, [op |-> "text", xy |-> at, fill |-> "#22c55e",
                                            outline |-> "none", width |-> 0,
                                            text |-> text, font |-> f.font]),
                  ![k].pc = "return"]
    /\ UNCHANGED <<dpc, icon, files, written, stdout, status>>

\* line 61, and the binding of the result at line 68
Return(k) ==
    /\ At(k, "return")
    /\ call' = [call EXCEPT ![k].pc = "returned"]
    /\ icon' = [icon EXCEPT ![k] = call[k].img]
    /\ dpc' = [dpc EXCEPT ![k] = "save"]
    /\ UNCHANGED <<files, written, stdout, status>>

CreateIconStep(k) ==
    \/ ImageNew(k)
    \/ DrawBadge(k)
    \/ DrawVertical(k)
    \/ DrawBeam(k)
    \/ DrawLeftPan(k)
    \/ DrawRightPan(k)
    \/ LoadTrueType(k)
    \/ LoadDefault(k)
    \/ TextBBox(k)
    \/ DrawLabel(k)
    \/ Return(k)

----------------------------------------------------------------------------
(* The module-level loop, lines 63-73 *)

\* line 65, relative to the repository root
public_dir == "public"

\* mutant: the size left out of the file name
IconPathFixed(size) == public_dir \o "/icon.png"

\* line 69
IconPath(size) == public_dir \o "/icon-" \o ToString(size) \o ".png"

Paths == {IconPath(sizes[k]) : k \in DOMAIN sizes}

\* contents a path can have
Absent == [format |-> "absent", width |-> 0, height |-> 0, px |-> NoImage.px]
Stale == [format |-> "stale", width |-> 0, height |-> 0, px |-> NoImage.px]
Partial == [format |-> "partial", width |-> 0, height |-> 0, px |-> NoImage.px]

\* what icon.save(path, 'PNG') leaves at the path when it returns
EncodePNG(img) ==
    [format |-> "PNG", width |-> img.width, height |-> img.height, px |-> img.px]

\* line 71
GeneratedLine(path) == "Generated " \o path

\* line 73
SuccessLine == "Icons generated successfully!"

\* line 67 taking the next element of sizes, and line 68 entering create_icon
Iterate(k) ==
    /\ status = "running"
    /\ k \in DOMAIN sizes
    /\ dpc[k] = "idle"
    /\ \A j \in 1..(k - 1) : dpc[j] = "end"
    /\ dpc' = [dpc EXCEPT ![k] = "create"]
    /\ call' = [call EXCEPT ![k] = NewFrame(sizes[k])]
    /\ UNCHANGED <<icon, files, written, stdout, status>>

\* lines 67-68 with the iterations started in any order
IterateAny(k) ==
    /\ status = "running"
    /\ k \in DOMAIN sizes
    /\ dpc[k] = "idle"
    /\ dpc' = [dpc EXCEPT ![k] = "create"]
    /\ call' = [call EXCEPT ![k] = NewFrame(sizes[k])]
    /\ UNCHANGED <<icon, files, written, stdout, status>>

\* line 68: an exception out of create_icon (Image.new cannot allocate the
\* canvas) is caught nowhere and ends the run
RenderRaise(k) ==
    /\ At(k, "new")
    /\ call' = [call EXCEPT ![k].pc = "raised"]
    /\ dpc' = [dpc EXCEPT ![k] = "raised"]
    /\ status' = "failed"
    /\ UNCHANGED <<icon, files, written, stdout>>

\* lines 69-70, save() returning
Save(k) ==
    /\ status = "running"
    /\ k \in DOMAIN sizes
    /\ dpc[k] = "save"
    /\ files' = [files EXCEPT ![IconPath(call[k].size)] = EncodePNG(icon[k])]
    /\ written' = Append(written, IconPath(call[k].size))
    /\ dpc' = [dpc EXCEPT ![k] = "print"]
    /\ UNCHANGED <<call, icon, stdout, status>>

\* mutant: the confirmation printed before save() is called
SaveRaisePrinted(k) ==
    /\ status = "running"
    /\ k \in DOMAIN sizes
    /\ dpc[k] = "save"
    /\ \E left \in {files[IconPath(call[k].size)], Absent, Partial} :
          files' = [files EXCEPT ![IconPath(call[k].size)] = left]
    /\ stdout' = Append(stdout, GeneratedLine(IconPath(call[k].size)))
    /\ dpc' = [dpc EXCEPT ![k] = "raised"]
    /\ status' = "failed"
    /\ UNCHANGED <<call, icon, written>>

\* lines 69-70, save() raising (directory missing or unwritable, encoder error):
\* the path is left untouched, removed or holding a partial file; the exception
\* is caught nowhere and ends the run
SaveRaise(k) ==
    /\ status = "running"
    /\ k \in DOMAIN sizes
    /\ dpc[k] = "save"
    /\ \E left \in {files[IconPath(call[k].size)], Absent, Partial} :
          files' = [files EXCEPT ![IconPath(call[k].size)] = left]
    /\ dpc' = [dpc EXCEPT ![k] = "raised"]
    /\ status' = "failed"
    /\ UNCHANGED <<call, icon, written, stdout>>

\* line 71
PrintGenerated(k) ==
    /\ status = "running"
    /\ k \in DOMAIN sizes
    /\ dpc[k] = "print"
    /\ stdout' = Append(stdout, GeneratedLine(IconPath(call[k].size)))
    /\ dpc' = [dpc EXCEPT ![k] = "end"]
    /\ UNCHANGED <<call, icon, files, written, status>>

\* mutant: the success line indented into the loop body
PrintSuccessInLoop ==
    /\ status = "running"
    /\ \E k \in DOMAIN dpc : dpc[k] = "end"
    /\ stdout' = Append(stdout, SuccessLine)
    /\ status' = "done"
    /\ UNCHANGED <<call, dpc, icon, files, written>>

\* line 73, after the loop
PrintSuccess ==
    /\ status = "running"
    /\ \A k \in DOMAIN dpc : dpc[k] = "end"
    /\ stdout' = Append(stdout, SuccessLine)
    /\ status' = "done"
    /\ UNCHANGED <<call, dpc, icon, files, written>>

----------------------------------------------------------------------------
(* Specifications *)

\* the script as written: the output directory holds anything at the two paths
Init ==
    /\ call = [k \in DOMAIN sizes |-> NewFrame(sizes[k])]
    /\ dpc = [k \in DOMAIN sizes |-> "idle"]
    /\ icon = [k \in DOMAIN sizes |-> NoImage]
    /\ files \in [Paths -> {Absent, Stale}]
    /\ written = <<>>
    /\ stdout = <<>>
    /\ status = "running"

Next ==
    \/ \E k \in DOMAIN sizes : Iterate(k)
    \/ \E k \in DOMAIN sizes : CreateIconStep(k)
    \/ \E k \in DOMAIN sizes : RenderRaise(k)
    \/ \E k \in DOMAIN sizes : Save(k)
    \/ \E k \in DOMAIN sizes : SaveRaise(k)
    \/ \E k \in DOMAIN sizes : PrintGenerated(k)
    \/ PrintSuccess

Spec == Init /\ [][Next]_vars

\* the two render-and-write cycles started in any order and interleaved
NextPar ==
    \/ \E k \in DOMAIN sizes : IterateAny(k)
    \/ \E k \in DOMAIN sizes : CreateIconStep(k)
    \/ \E k \in DOMAIN sizes : RenderRaise(k)
    \/ \E k \in DOMAIN sizes : Save(k)
    \/ \E k \in DOMAIN sizes : SaveRaise(k)
    \/ \E k \in DOMAIN sizes : PrintGenerated(k)
    \/ PrintSuccess

SpecPar == Init /\ [][NextPar]_vars

\* create_icon on its own, called once with any size of ArgSizes
ArgSizes == (1..MaxSize) \cup {sizes[k] : k \in DOMAIN sizes}

InitFn ==
    /\ \E n \in ArgSizes : call = [k \in {1} |-> NewFrame(n)]
    /\ dpc = [k \in {1} |-> "create"]
    /\ icon = [k \in {1} |-> NoImage]
    /\ files = [p \in Paths |-> Absent]
    /\ written = <<>>
    /\ stdout = <<>>
    /\ status = "running"

NextFn == \E k \in {1} : CreateIconStep(k)

SpecFn == InitFn /\ [][NextFn]_vars

----------------------------------------------------------------------------
(* Properties of create_icon, checked under SpecFn *)

Green == <<34, 197, 94>>
Pure == <<255, 255, 255>>

ScriptSizes == {192, 512}

Created(k) == call[k].pc \notin {"new", "raised"}
Returned(k) == call[k].pc = "returned"

\* C1: from Image.new on, through every drawing step and in the returned
\* image, the canvas is size wide and size high, for every positive size.
C1_Dimensions ==
    \A k \in DOMAIN call :
        /\ Created(k) => /\ call[k].img.width = call[k].size
                         /\ call[k].img.height = call[k].size
        /\ Returned(k) => /\ icon[k].width = call[k].size
                          /\ icon[k].height = call[k].size

C1_Witness ==
    \E k \in DOMAIN call :
        /\ Returned(k) /\ call[k].size = 512
        /\ icon[k].width = 512 /\ icon[k].height = 512
        /\ Len(call[k].ops) = 6

\* C2 as claimed: the centre pixel of the returned 192 or 512 image is white.
C2_CenterWhite ==
    \A k \in DOMAIN call :
        (Returned(k) /\ call[k].size \in ScriptSizes) => icon[k].px["center"] = Pure

\* C2 amended: the centre pixel of the returned 192 or 512 image is the brand
\* green (the vertical stroke runs through it), and the badge is white at
\* (size/2 + size/8, size/2), which no stroke, pan or label covers.
C2_CenterGreenBadgeWhite ==
    \A k \in DOMAIN call :
        (Returned(k) /\ call[k].size \in ScriptSizes) =>
            /\ icon[k].px["center"] = Green
            /\ icon[k].px["badge"] = Pure

C2_Witness ==
    \E k \in DOMAIN call :
        /\ Returned(k) /\ call[k].size = 192
        /\ icon[k].px["center"] = Green
        /\ icon[k].px["badge"] = Pure

\* C3: for size 192 and 512 the corner pixel (0, 0) is the brand green after
\* the fill and stays so through every later step and in the returned image.
C3_CornerGreen ==
    \A k \in DOMAIN call :
        call[k].size \in ScriptSizes =>
            /\ Created(k) => call[k].img.px["corner"] = Green
            /\ Returned(k) => icon[k].px["corner"] = Green

C3_Witness ==
    \E k \in DOMAIN call :
        /\ Returned(k) /\ call[k].size = 512
        /\ icon[k].px["corner"] = Green
        /\ icon[k].px["badge"] = Pure

OpNames(ops) == [i \in DOMAIN ops |-> ops[i].op]

\* C4: when the preferred font fails to load the call does not raise: it goes
\* on with the default font, every later step can be taken, and the image it
\* returns has had the badge, both strokes, both pans and the label drawn.
C4_FontFallbackSilent ==
    /\ status = "running"
    /\ \A k \in DOMAIN call :
        /\ call[k].pc # "raised"
        /\ call[k].pc = "font" => ENABLED LoadDefault(k)
        /\ call[k].font.kind = "default" =>
            /\ call[k].pc \in {"bbox", "text", "return", "returned"}
            /\ call[k].pc = "bbox" => ENABLED TextBBox(k)
            /\ call[k].pc = "text" => ENABLED DrawLabel(k)
            /\ call[k].pc = "return" => ENABLED Return(k)
            /\ Returned(k) =>
                /\ OpNames(call[k].ops) =
                       <<"ellipse", "line", "line", "ellipse", "ellipse", "text">>
                /\ call[k].ops[6].font.kind = "default"
                /\ icon[k] = call[k].img
                /\ icon[k].mode = "RGB"

C4_Witness ==
    \E k \in DOMAIN call :
        /\ Returned(k)
        /\ call[k].font.kind = "default"
        /\ Len(call[k].ops) = 6
        /\ icon[k].width = call[k].size

\* C7: the stroke width is max(2, size div 50), 10 for 512 and 3 for 192, and
\* the vertical stroke, the beam and both pan outlines are drawn with it.
C7_StrokeWidth ==
    /\ LineWidth(512) = 10
    /\ LineWidth(192) = 3
    /\ \A k \in DOMAIN call :
          \A i \in DOMAIN call[k].ops :
              i \in 2..5 =>
                  call[k].ops[i].width =
                      IF call[k].size \div 50 >= 2 THEN call[k].size \div 50 ELSE 2

C7_Witness ==
    \E k \in DOMAIN call :
        /\ Returned(k) /\ call[k].size = 512
        /\ \A i \in 2..5 : call[k].ops[i].width = 10

\* C10: for every positive size each pan is an outline whose box is centred on
\* a beam end, (cx -/+ size div 3, cy - size div 4), with half-extent
\* (size div 8) div 2 = size div 16 on all four sides.
C10_PanGeometry ==
    \A k \in DOMAIN call :
        LET s == call[k].size
            r == s \div 16
            y == s \div 2 - s \div 4
            lx == s \div 2 - s \div 3
            rx == s \div 2 + s \div 3
            ops == call[k].ops
        IN  /\ (s \div 8) \div 2 = r
            /\ Len(ops) >= 4 =>
                 /\ ops[4].op = "ellipse" /\ ops[4].fill = "none"
                 /\ ops[4].outline = "#22c55e"
                 /\ ops[4].xy = <<lx - r, y - r, lx + r, y + r>>
                 /\ ops[3].xy[1] = lx /\ ops[3].xy[2] = y
            /\ Len(ops) >= 5 =>
                 /\ ops[5].op = "ellipse" /\ ops[5].fill = "none"
                 /\ ops[5].outline = "#22c55e"
                 /\ ops[5].xy = <<rx - r, y - r, rx + r, y + r>>
                 /\ ops[3].xy[3] = rx /\ ops[3].xy[4] = y

C10_Witness ==
    \E k \in DOMAIN call :
        /\ Returned(k) /\ call[k].size = 100
        /\ call[k].ops[4].xy = <<11, 19, 23, 31>>
        /\ call[k].ops[5].xy = <<77, 19, 89, 31>>

----------------------------------------------------------------------------
(* Properties of the run, checked under Spec *)

Path192 == "public/icon-192.png"
Path512 == "public/icon-512.png"

Lines(q) == {q[i] : i \in DOMAIN q}

Count(q, x) == Cardinality({i \in DOMAIN q : q[i] = x})

\* C5: line by line, a confirmation is printed only for a file already
\* written, and the success line is printed at most once, last, after both
\* writes; a run that ends without a failure has written icon-192.png then
\* icon-512.png and nothing else, each file the PNG of the size x size image
\* rendered for its size.
C5_TwoFilesInOrder ==
    /\ \A k \in DOMAIN sizes :
          GeneratedLine(IconPath(sizes[k])) \in Lines(stdout) =>
              /\ IconPath(sizes[k]) \in Lines(written)
              /\ files[IconPath(sizes[k])] = EncodePNG(icon[k])
    /\ Count(stdout, SuccessLine) <= 1
    /\ SuccessLine \in Lines(stdout) =>
          /\ status = "done"
          /\ stdout[Len(stdout)] = SuccessLine
          /\ written = <<Path192, Path512>>
    /\ status = "done" =>
          /\ written = <<Path192, Path512>>
          /\ stdout = <<"Generated public/icon-192.png",
                        "Generated public/icon-512.png",
                        "Icons generated successfully!">>
          /\ DOMAIN files = {Path192, Path512}
          /\ files[Path192].format = "PNG"
          /\ files[Path192].width = 192 /\ files[Path192].height = 192
          /\ files[Path192].px = call[1].img.px
          /\ files[Path512].format = "PNG"
          /\ files[Path512].width = 512 /\ files[Path512].height = 512
          /\ files[Path512].px = call[2].img.px

C5_Witness ==
    /\ status = "done"
    /\ written = <<Path192, Path512>>
    /\ files[Path192].width = 192
    /\ files[Path512].width = 512
    /\ Len(stdout) = 3

Raised == {k \in DOMAIN dpc : dpc[k] = "raised"}

\* C6 as claimed: a failure ends the run at once, nothing later is rendered or
\* written, the failed file is not confirmed, no success line is printed, and
\* the failed run has reported nothing and written nothing.
C6_AllOrNothing ==
    status = "failed" =>
        /\ ~ENABLED Next
        /\ \A k \in Raised :
              /\ \A j \in DOMAIN dpc : j > k => dpc[j] = "idle"
              /\ GeneratedLine(IconPath(sizes[k])) \notin Lines(stdout)
        /\ SuccessLine \notin Lines(stdout)
        /\ stdout = <<>>
        /\ written = <<>>

\* C6 amended: a failure ends the run at once, nothing later is rendered or
\* written, the failed file is neither confirmed nor left as a finished image
\* of this run, and no success line is printed; the icons finished before the
\* failure stay written and confirmed.
C6_FailStop ==
    status = "failed" =>
        /\ ~ENABLED Next
        /\ Cardinality(Raised) = 1
        /\ \A k \in Raised :
              /\ \A j \in DOMAIN dpc : j > k =>
                    /\ dpc[j] = "idle"
                    /\ IconPath(sizes[j]) \notin Lines(written)
              /\ GeneratedLine(IconPath(sizes[k])) \notin Lines(stdout)
              /\ IconPath(sizes[k]) \notin Lines(written)
              /\ files[IconPath(sizes[k])].format # "PNG"
              /\ \A j \in DOMAIN dpc : j < k =>
                    /\ dpc[j] = "end"
                    /\ files[IconPath(sizes[j])] = EncodePNG(icon[j])
                    /\ GeneratedLine(IconPath(sizes[j])) \in Lines(stdout)
              /\ Len(written) = k - 1
              /\ Len(stdout) = k - 1
        /\ SuccessLine \notin Lines(stdout)

C6_Witness ==
    /\ status = "failed"
    /\ dpc = <<"end", "raised">>
    /\ call[2].pc = "returned"
    /\ written = <<Path192>>
    /\ stdout = <<"Generated public/icon-192.png">>
    /\ files[Path192].format = "PNG"

\* the geometry a finished call has used, read off its draw calls
Geometry(f) ==
    [margin |-> f.ops[1].xy[1],
     line_width |-> f.ops[2].width,
     stroke_half |-> f.ops[2].xy[1] - f.ops[2].xy[2],
     beam_half |-> f.ops[3].xy[3] - f.ops[2].xy[1],
     pan_radius |-> f.ops[4].xy[3] - f.ops[3].xy[1],
     label_offset |-> f.ops[6].xy[2] - f.ops[2].xy[1],
     font_size |-> f.ops[6].font.size]

\* C8 as claimed: whichever font each call ends up with, every geometry
\* parameter of the 192 icon stands to that of the 512 icon as 192 to 512.
C8_Proportional ==
    (Returned(1) /\ Returned(2)) =>
        \A g \in DOMAIN Geometry(call[1]) :
            Geometry(call[1])[g] * call[2].size = Geometry(call[2])[g] * call[1].size

\* C8 amended: every geometry parameter is an integer quotient of size and so
\* proportional to it only up to truncation: margin size div 8, stroke width
\* max(2, size div 50), stroke half-length size div 4, beam half-span
\* size div 3, pan radius size div 16, label offset size div 6; the label font
\* size is size div 6 with the preferred font, and with the fallback font it
\* is that font's own size, whatever size is.
C8_QuotientsOfSize ==
    \A k \in DOMAIN call :
        Returned(k) =>
            LET s == call[k].size
                g == Geometry(call[k])
            IN  /\ g.margin = s \div 8
                /\ g.line_width = (IF s \div 50 >= 2 THEN s \div 50 ELSE 2)
                /\ g.stroke_half = s \div 4
                /\ g.beam_half = s \div 3
                /\ g.pan_radius = s \div 16
                /\ g.label_offset = s \div 6
                /\ call[k].font.kind = "truetype" => g.font_size = s \div 6
                /\ call[k].font.kind = "default" => g.font_size \in DefaultFontSizes
                /\ call[k].font.kind \in {"truetype", "default"}

C8_Witness ==
    /\ Returned(1) /\ Returned(2)
    /\ call[1].font.kind = "default"
    /\ call[2].font.kind = "truetype"
    /\ Geometry(call[1]).beam_half = 64
    /\ Geometry(call[2]).beam_half = 170
    /\ Geometry(call[2]).font_size = 85

----------------------------------------------------------------------------
(* Properties of the interleaved cycles, checked under SpecPar *)

\* C9: with the two render-and-write cycles started in either order and
\* their steps interleaved in any way, a run that ends without a failure
\* leaves the same two files as the sequential run: each path holds the PNG of
\* the image drawn by its own cycle, from its own size alone.
C9_OrderIndependent ==
    status = "done" =>
        /\ DOMAIN files = {Path192, Path512}
        /\ Lines(written) = {Path192, Path512}
        /\ Len(written) = 2
        /\ \A k \in DOMAIN sizes :
              LET path == IF k = 1 THEN Path192 ELSE Path512
                  f == files[path]
              IN  /\ f = EncodePNG(call[k].img)
                  /\ f.format = "PNG"
                  /\ f.width = sizes[k] /\ f.height = sizes[k]
                  /\ f.px = [p \in ProbeNames |-> IF p = "badge" THEN Pure ELSE Green]
                  /\ call[k].size = sizes[k]
                  /\ Len(call[k].ops) = 6
                  /\ call[k].ops[1].xy =
                        <<sizes[k] \div 8, sizes[k] \div 8,
                          sizes[k] - sizes[k] \div 8, sizes[k] - sizes[k] \div 8>>
                  /\ call[k].ops[3].xy[3] - call[k].ops[3].xy[1] = 2 * (sizes[k] \div 3)

C9_Witness ==
    /\ status = "done"
    /\ written = <<Path512, Path192>>
    /\ files[Path192].width = 192
    /\ files[Path512].width = 512

====
